---- MODULE Spec2Model ----
(***************************************************************************)
(* SierraVision: the change-detection and classification core.             *)
(*                                                                         *)
(* The numeric routines of backend/enhanced_processor.py,                  *)
(* backend/change_detector.py, backend/simple_visualizer.py and            *)
(* backend/improved_visualizer.py, each modelled as the step(s) of the     *)
(* function that holds it.  Floating point samples are exact rationals     *)
(* [n |-> numerator, d |-> denominator] with d > 0; the IEEE value NaN,    *)
(* which numpy yields for 0/0, is the record with d = 0.                   *)
(***************************************************************************)
EXTENDS Integers, Sequences, FiniteSets

VARIABLES
    pc,              \* position of the running routine
    hdf_data,        \* process_modis_hdf_file: data, the dataset of the fallback
    red, nir,        \* _calculate_ndvi: the two bands (flattened rasters)
    ndvi,            \* the VegetationIndex raster
    forest_density,  \* the DensityClass raster
    band,            \* _normalize_band / _normalize_image: one channel
    band_norm,       \* its normalised form
    img, img_norm,   \* _normalize_image: an image and its normalised form
    before, after,   \* detect_deforestation: the two images (BGR pixels)
    before_mask, after_mask, loss_mask,
    result,          \* detect_deforestation's returned record
    arr_2000, arr_2025,  \* index-difference mode: the two arrays as loaded
    ndimage,         \* whether scipy.ndimage imports and its filter runs
    img_2000, img_2025,  \* the two arrays handed to the analysis
    change_map,      \* the ChangeMap
    report,          \* the summary report's statistics
    fetcher,         \* image download: the download routine that is running
    all_sources,     \* its ordered list of sources
    requested,       \* the requests made so far, each with its response
    filepath,        \* what the file at the target path holds
    download,        \* the value the download call returned
    data_dir,        \* refresh_all_data: the entries of the data directory
    remove_images,   \* its parameter
    refresh_results, \* the details it returns
    firms_requests,  \* get_fire_data: the FIRMS responses received so far
    sierra_fires,    \* the fires collected so far
    fire_data,       \* the FeatureCollection it returns
    high_confidence, \* export_report_pdf: its count of high-confidence fires
    high_confidence_fires, \* get_detailed_analytics: its count
    fetch_class,     \* fetch_comparison_images: the class it is called on
    calls,           \* the calls it has made so far, in order
    result_2000, result_2025,  \* what its two downloads returned
    comparison_fire_data,      \* what its get_fire_data call returned
    comparison       \* the record it returns

ndviVars == <<hdf_data, red, nir, ndvi, forest_density>>
normVars == <<band, band_norm, img, img_norm>>
maskVars == <<before, after, before_mask, after_mask, loss_mask, result>>
indexVars == <<arr_2000, arr_2025, ndimage, img_2000, img_2025, change_map, report>>
fetchVars == <<fetcher, all_sources, requested, filepath, download>>
refreshVars == <<data_dir, remove_images, refresh_results>>
fireVars == <<firms_requests, sierra_fires, fire_data, high_confidence, high_confidence_fires>>
compareVars == <<fetch_class, calls, result_2000, result_2025, comparison_fire_data, comparison>>
apiVars == <<refreshVars, fireVars, compareVars>>
vars == <<pc, ndviVars, normVars, maskVars, indexVars, fetchVars, apiVars>>

\* A value no routine has produced yet.
None == <<>>

-----------------------------------------------------------------------------
(* Bounds of the model *)

\* pixels of a flattened band raster
RasterLen == 2
\* band samples range over -MaxSample .. MaxSample
MaxSample == 2
\* index values handed to the classifier range over -MaxTenths/10 .. MaxTenths/10
MaxTenths == 12
\* pixels of a band handed to the normaliser
BandLen == 3
\* channels of a colour image
NumChannels == 2
\* 8-bit image samples range over 0 .. MaxGrey
MaxGrey == 2
\* height and width of the images handed to detect_deforestation
ImgHeight == 4
ImgWidth == 4
\* height and width of the images handed to the two visualizers
IndexHeight == 2
IndexWidth == 2
\* their samples are the squares 0, 1, 4, .. MaxRoot^2
MaxRoot == 2

-----------------------------------------------------------------------------
(* Exact arithmetic on float64 samples *)

Rat(n, d) == [n |-> n, d |-> d]
NaN == [n |-> 0, d |-> 0]
IsNaN(x) == x.d = 0
FromInt(i) == Rat(i, 1)

RECURSIVE GCD(_, _)
GCD(a, b) == IF b = 0 THEN a ELSE GCD(b, a % b)
Abs(x) == IF x < 0 THEN -x ELSE x

\* the quotient n/d of two integers, d # 0, in lowest terms with d > 0
Quot(n, d) ==
    LET g == GCD(Abs(n), Abs(d))
    IN  IF d < 0 THEN Rat((-n) \div g, (-d) \div g) ELSE Rat(n \div g, d \div g)

\* IEEE comparisons: every comparison with NaN is false
\* an/ad < bn/bd for ad, bd > 0, by integer parts and then the reciprocals of
\* the fractional parts, so that no product of two large integers is formed
RECURSIVE Less(_, _, _, _)
Less(an, ad, bn, bd) ==
    LET fa == an \div ad
        fb == bn \div bd
        ra == an - fa * ad
        rb == bn - fb * bd
    IN  IF fa # fb THEN fa < fb
        ELSE IF rb = 0 THEN FALSE
        ELSE IF ra = 0 THEN TRUE
        ELSE Less(bd, rb, ad, ra)
Lt(a, b) == ~IsNaN(a) /\ ~IsNaN(b) /\ Less(a.n, a.d, b.n, b.d)
Le(a, b) == ~IsNaN(a) /\ ~IsNaN(b) /\ ~Less(b.n, b.d, a.n, a.d)
Gt(a, b) == Lt(b, a)
Ge(a, b) == Le(b, a)
Eq(a, b) == Le(a, b) /\ Le(b, a)

\* sums and products are formed over the least common denominator, so that
\* the intermediate integers stay small
Add(a, b) ==
    IF IsNaN(a) \/ IsNaN(b) THEN NaN
    ELSE LET g == GCD(a.d, b.d)
         IN  Quot(a.n * (b.d \div g) + b.n * (a.d \div g), (a.d \div g) * b.d)
Sub(a, b) ==
    IF IsNaN(a) \/ IsNaN(b) THEN NaN
    ELSE LET g == GCD(a.d, b.d)
         IN  Quot(a.n * (b.d \div g) - b.n * (a.d \div g), (a.d \div g) * b.d)
Mul(a, b) ==
    IF IsNaN(a) \/ IsNaN(b) THEN NaN
    ELSE LET g1 == GCD(Abs(a.n), b.d)
             g2 == GCD(Abs(b.n), a.d)
         IN  Quot((a.n \div g1) * (b.n \div g2), (a.d \div g2) * (b.d \div g1))
\* numpy true division of finite values: 0/0 is NaN (a warning, no exception).
\* Every division modelled here has a zero numerator wherever its denominator
\* is zero, so x/0 = inf for x # 0 does not arise.
Div(a, b) ==
    IF IsNaN(a) \/ IsNaN(b) THEN NaN
    ELSE IF b.n = 0 THEN NaN
    ELSE Mul(a, IF b.n < 0 THEN Rat(-b.d, -b.n) ELSE Rat(b.d, b.n))

\* np.clip(x, lo, hi); NaN passes through
Clip(x, lo, hi) == IF Lt(x, lo) THEN lo ELSE IF Gt(x, hi) THEN hi ELSE x

\* the array that holds the values of f at 1 .. Len(f)
AsArray(f) == SubSeq(f, 1, Len(f))

-----------------------------------------------------------------------------
(* enhanced_processor.py: EnhancedSatelliteProcessor._calculate_ndvi *)

\* np.divide(nir - red, denominator, out=zeros, where=denominator != 0)
NdviNoClipPixel(r, n) ==
    LET denominator == Add(n, r)
    IN  IF denominator.n # 0 THEN Div(Sub(n, r), denominator) ELSE FromInt(0)

\* the bug of a plain nir - red / nir + red: 0/0 where the bands cancel
NdviUnguardedPixel(r, n) ==
    Clip(Div(Sub(n, r), Add(n, r)), FromInt(-1), FromInt(1))

NdviPixel(r, n) ==
    LET denominator == Add(n, r)
        q == IF denominator.n # 0 THEN Div(Sub(n, r), denominator) ELSE FromInt(0)
    IN  Clip(q, FromInt(-1), FromInt(1))

calculate_ndvi(r, n) == [i \in DOMAIN r |-> NdviPixel(r[i], n[i])]

-----------------------------------------------------------------------------
(* enhanced_processor.py: EnhancedSatelliteProcessor._classify_forest_density *)

SparseMin == Rat(1, 10)
ModerateMin == Rat(3, 10)
DenseMin == Rat(5, 10)
VeryDenseMin == Rat(7, 10)

\* the bug "<= 0.1 is no vegetation": the lower boundary moved into class 0
ClassifyClosedPixel(v) ==
    IF Le(v, SparseMin) THEN 0
    ELSE IF Lt(v, ModerateMin) THEN 1
    ELSE IF Lt(v, DenseMin) THEN 2
    ELSE IF Lt(v, VeryDenseMin) THEN 3
    ELSE IF Ge(v, VeryDenseMin) THEN 4 ELSE 0

\* the bug of a swapped pair of class labels (dense and very dense)
ClassifySwappedPixel(v) ==
    IF Lt(v, SparseMin) THEN 0
    ELSE IF Lt(v, ModerateMin) THEN 1
    ELSE IF Lt(v, DenseMin) THEN 2
    ELSE IF Lt(v, VeryDenseMin) THEN 4
    ELSE IF Ge(v, VeryDenseMin) THEN 3 ELSE 0

\* zeros_like(ndvi), then the five masked assignments in the order of the code
ClassifyPixel(v) ==
    LET f0 == 0
        f1 == IF Lt(v, SparseMin) THEN 0 ELSE f0
        f2 == IF Ge(v, SparseMin) /\ Lt(v, ModerateMin) THEN 1 ELSE f1
        f3 == IF Ge(v, ModerateMin) /\ Lt(v, DenseMin) THEN 2 ELSE f2
        f4 == IF Ge(v, DenseMin) /\ Lt(v, VeryDenseMin) THEN 3 ELSE f3
        f5 == IF Ge(v, VeryDenseMin) THEN 4 ELSE f4
    IN  f5

classify_forest_density(x) == [i \in DOMAIN x |-> ClassifyPixel(x[i])]

-----------------------------------------------------------------------------
(* Inputs *)

Pixels == 1..RasterLen
Samples == {FromInt(s) : s \in -MaxSample..MaxSample}

\* index values around every class boundary, and values outside [-1, 1]
NearBoundary == {Rat(999, 10000), Rat(1001, 10000), Rat(2999, 10000), Rat(3001, 10000),
                 Rat(4999, 10000), Rat(5001, 10000), Rat(6999, 10000), Rat(7001, 10000)}
IndexValues == {Rat(k, 10) : k \in -MaxTenths..MaxTenths} \cup NearBoundary

-----------------------------------------------------------------------------
(* The vegetation-index pipeline of _create_forest_monitoring_plot *)

IdleNorm == band = None /\ band_norm = None /\ img = None /\ img_norm = None
IdleMask == /\ before = None /\ after = None /\ before_mask = None
            /\ after_mask = None /\ loss_mask = None /\ result = None
IdleIndex == /\ arr_2000 = None /\ arr_2025 = None /\ ndimage = None
             /\ img_2000 = None /\ img_2025 = None
             /\ change_map = None /\ report = None
IdleFetch == /\ fetcher = None /\ all_sources = None /\ requested = None
             /\ filepath = None /\ download = None
IdleRefresh == data_dir = None /\ remove_images = None /\ refresh_results = None
IdleFire == /\ firms_requests = None /\ sierra_fires = None /\ fire_data = None
            /\ high_confidence = None /\ high_confidence_fires = None
IdleCompare == /\ fetch_class = None /\ calls = None /\ result_2000 = None
               /\ result_2025 = None /\ comparison_fire_data = None /\ comparison = None
IdleApi == IdleRefresh /\ IdleFire /\ IdleCompare
IdleNdvi == /\ hdf_data = None /\ red = None /\ nir = None
            /\ ndvi = None /\ forest_density = None

InitNdvi ==
    /\ pc = "bands"
    /\ hdf_data = None
    /\ red \in [Pixels -> Samples]
    /\ nir \in [Pixels -> Samples]
    /\ ndvi = None
    /\ forest_density = None
    /\ IdleNorm /\ IdleMask /\ IdleIndex /\ IdleFetch /\ IdleApi

\* line 90: ndvi = self._calculate_ndvi(red, nir)
CalculateNdvi ==
    /\ pc = "bands"
    /\ ndvi' = calculate_ndvi(red, nir)
    /\ pc' = "ndvi"
    /\ UNCHANGED <<fetchVars, apiVars, hdf_data, red, nir, forest_density, normVars, maskVars, indexVars>>

\* line 132: forest_density = self._classify_forest_density(ndvi)
ClassifyForestDensity ==
    /\ pc = "ndvi"
    /\ forest_density' = classify_forest_density(ndvi)
    /\ pc' = "classified"
    /\ UNCHANGED <<fetchVars, apiVars, hdf_data, red, nir, ndvi, normVars, maskVars, indexVars>>

NextNdvi == CalculateNdvi \/ ClassifyForestDensity

SpecNdvi == InitNdvi /\ [][NextNdvi]_vars

(* process_modis_hdf_file, lines 49-70: the standard band names are missing
   and the four bands are made from the first dataset of the file *)

\* the samples of the dataset: integers, one step wider than the band samples
DatasetSamples == {FromInt(s) : s \in -(MaxSample + 1)..(MaxSample + 1)}

\* the bug of a synthetic NIR of twice the red band
SyntheticNirDouble(d) == [i \in DOMAIN d |-> Mul(d[i], Rat(2, 1))]

\* line 65: sur_refl_b02 = data * 1.2
SyntheticNir(d) == [i \in DOMAIN d |-> Mul(d[i], Rat(12, 10))]

InitFallback ==
    /\ pc = "dataset"
    /\ hdf_data \in [Pixels -> DatasetSamples]
    /\ red = None /\ nir = None
    /\ ndvi = None
    /\ forest_density = None
    /\ IdleNorm /\ IdleMask /\ IdleIndex /\ IdleFetch /\ IdleApi

\* lines 64-65, 73-76: red and NIR as handed to _create_forest_monitoring_plot
FallbackBands ==
    /\ pc = "dataset"
    /\ red' = hdf_data
    /\ nir' = SyntheticNir(hdf_data)
    /\ pc' = "bands"
    /\ UNCHANGED <<fetchVars, apiVars, hdf_data, ndvi, forest_density, normVars, maskVars, indexVars>>

NextFallback == FallbackBands \/ CalculateNdvi \/ ClassifyForestDensity

SpecFallback == InitFallback /\ [][NextFallback]_vars

\* The classifier as a pure function of an arbitrary index raster.
InitClassify ==
    /\ pc = "ndvi"
    /\ hdf_data = None /\ red = None /\ nir = None
    /\ ndvi \in [Pixels -> IndexValues]
    /\ forest_density = None
    /\ IdleNorm /\ IdleMask /\ IdleIndex /\ IdleFetch /\ IdleApi

NextClassify == ClassifyForestDensity

SpecClassify == InitClassify /\ [][NextClassify]_vars

-----------------------------------------------------------------------------
(* Claims about the density classifier and the vegetation index *)

\* C1: classify_density maps every pixel value v to exactly one class: 0 if
\* v < 0.1, 1 if 0.1 <= v < 0.3, 2 if 0.3 <= v < 0.5, 3 if 0.5 <= v < 0.7 and
\* 4 if v >= 0.7; the boundaries are half-open and exact.
C1_ClassIntervalsExact ==
    pc = "classified" =>
        \A i \in DOMAIN ndvi :
            LET v == ndvi[i]
                c == forest_density[i]
            IN  /\ (c = 0) <=> (10 * v.n < v.d)
                /\ (c = 1) <=> (v.d <= 10 * v.n /\ 10 * v.n < 3 * v.d)
                /\ (c = 2) <=> (3 * v.d <= 10 * v.n /\ 10 * v.n < 5 * v.d)
                /\ (c = 3) <=> (5 * v.d <= 10 * v.n /\ 10 * v.n < 7 * v.d)
                /\ (c = 4) <=> (7 * v.d <= 10 * v.n)

\* a raster holding exactly 0.1 (class 1) beside 0.0999 (class 0)
C1_Witness ==
    /\ pc = "classified"
    /\ \E i, j \in DOMAIN ndvi :
        /\ ndvi[i] = Rat(1, 10) /\ forest_density[i] = 1
        /\ ndvi[j] = Rat(999, 10000) /\ forest_density[j] = 0

\* C2: classify_density is total and monotonic non-decreasing: a <= b implies
\* class(a) <= class(b), also outside [-1, 1], and every class is in 0..4.
C2_TotalMonotonic ==
    pc = "classified" =>
        /\ DOMAIN forest_density = DOMAIN ndvi
        /\ \A i \in DOMAIN ndvi : forest_density[i] \in 0..4
        /\ \A i, j \in DOMAIN ndvi :
            ndvi[i].n * ndvi[j].d <= ndvi[j].n * ndvi[i].d
                => forest_density[i] <= forest_density[j]

\* a value below -1 beside a value above 1, in the lowest and the highest class
C2_Witness ==
    /\ pc = "classified"
    /\ \E i, j \in DOMAIN ndvi :
        /\ ndvi[i].n < -ndvi[i].d /\ forest_density[i] = 0
        /\ ndvi[j].n > ndvi[j].d /\ forest_density[j] = 4

\* numerator and denominator of (nir - red) / (nir + red) over the common
\* denominator of the two samples
NdviNum(i) == nir[i].n * red[i].d - red[i].n * nir[i].d
NdviDen(i) == nir[i].n * red[i].d + red[i].n * nir[i].d

\* C3: wherever red + nir = 0 the index is exactly 0, never NaN, and the
\* other pixels of the raster still carry a number.
C3_ZeroDenominatorYieldsZero ==
    pc \in {"ndvi", "classified"} =>
        \A i \in DOMAIN ndvi :
            /\ ndvi[i].d # 0
            /\ NdviDen(i) = 0 => ndvi[i].n = 0

\* red = -nir # 0 at one pixel, a nonzero index at another
C3_Witness ==
    /\ pc = "ndvi"
    /\ \E i, j \in DOMAIN ndvi :
        /\ NdviDen(i) = 0 /\ red[i].n # 0 /\ ndvi[i].n = 0 /\ ndvi[i].d # 0
        /\ NdviDen(j) # 0 /\ ndvi[j].n # 0

\* C4: every pixel with nir + red # 0 equals (nir - red)/(nir + red) clipped
\* to [-1, 1], so the whole VegetationIndex lies in [-1, 1].
C4_QuotientClipped ==
    pc \in {"ndvi", "classified"} =>
        \A i \in DOMAIN ndvi :
            LET v == ndvi[i]
            IN  /\ v.d > 0
                /\ -v.d <= v.n /\ v.n <= v.d
                /\ NdviDen(i) # 0 =>
                    IF Abs(NdviNum(i)) <= Abs(NdviDen(i))
                    THEN v.n * NdviDen(i) = NdviNum(i) * v.d
                    ELSE IF (NdviNum(i) > 0) = (NdviDen(i) > 0)
                         THEN v.n = v.d
                         ELSE v.n = -v.d

\* bands of opposite sign whose quotient leaves [-1, 1] and is clipped
C4_Witness ==
    /\ pc = "ndvi"
    /\ \E i, j \in DOMAIN ndvi :
        /\ NdviDen(i) # 0 /\ Abs(NdviNum(i)) > Abs(NdviDen(i)) /\ ndvi[i].n = -ndvi[i].d
        /\ NdviDen(j) # 0 /\ Abs(NdviNum(j)) < Abs(NdviDen(j)) /\ ndvi[j].n # 0

-----------------------------------------------------------------------------
(* enhanced_processor.py: EnhancedSatelliteProcessor._normalize_band *)

Range(f) == {f[i] : i \in DOMAIN f}

\* ndarray.min() and ndarray.max() of a raster without NaN
MinOf(f) == CHOOSE v \in Range(f) : \A w \in Range(f) : Le(v, w)
MaxOf(f) == CHOOSE v \in Range(f) : \A w \in Range(f) : Ge(v, w)

\* the k-th smallest sample (k = 1 the smallest)
Kth(f, k) ==
    CHOOSE v \in Range(f) :
        /\ Cardinality({i \in DOMAIN f : Lt(f[i], v)}) < k
        /\ Cardinality({i \in DOMAIN f : Le(f[i], v)}) >= k

\* np.percentile(f, q), method 'linear': the sample at the virtual index
\* q/100 * (n - 1) of the sorted raster, interpolated between its neighbours
Percentile(f, q) ==
    LET n == Cardinality(DOMAIN f)
        pos == q * (n - 1)
        lo == pos \div 100
        frac == Rat(pos % 100, 100)
        a == Kth(f, lo + 1)
        b == Kth(f, IF lo + 2 <= n THEN lo + 2 ELSE n)
    IN  Add(a, Mul(frac, Sub(b, a)))

LowPercentile == 2
HighPercentile == 98

\* line 199-200: band_clipped = np.clip(band, p2, p98)
BandClipped(f) ==
    LET p2 == Percentile(f, LowPercentile)
        p98 == Percentile(f, HighPercentile)
    IN  [i \in DOMAIN f |-> Clip(f[i], p2, p98)]

\* (x - x.min()) / (x.max() - x.min()), elementwise
MinMaxScale(f) ==
    LET lo == MinOf(f)
        hi == MaxOf(f)
    IN  AsArray([i \in DOMAIN f |-> Div(Sub(f[i], lo), Sub(hi, lo))])

normalize_band(f) == MinMaxScale(BandClipped(f))

(* improved_visualizer.py: ImprovedVisualizationProcessor._normalize_image *)

\* an image is [ndim |-> 2, data |-> raster] (greyscale) or
\* [ndim |-> 3, data |-> <<channel raster, ...>>] (colour, channel-last)
normalize_image(im) ==
    IF im.ndim = 3
    THEN [ndim |-> 3, data |-> [c \in DOMAIN im.data |-> MinMaxScale(im.data[c])]]
    ELSE [ndim |-> 2, data |-> MinMaxScale(im.data)]

BandPixels == 1..BandLen
GreySamples == {FromInt(g) : g \in 0..MaxGrey}
GreyImages == {[ndim |-> 2, data |-> d] : d \in [Pixels -> GreySamples]}
ColourImages == {[ndim |-> 3, data |-> d] : d \in [1..NumChannels -> [Pixels -> GreySamples]]}

InitNormalize ==
    /\ \/ /\ pc = "band"
          /\ band \in [BandPixels -> Samples]
          /\ img = None
       \/ /\ pc = "img"
          /\ band = None
          /\ img \in GreyImages \cup ColourImages
    /\ band_norm = None
    /\ img_norm = None
    /\ IdleNdvi /\ IdleMask /\ IdleIndex /\ IdleFetch /\ IdleApi

NormalizeBand ==
    /\ pc = "band"
    /\ band_norm' = normalize_band(band)
    /\ pc' = "band_norm"
    /\ UNCHANGED <<fetchVars, apiVars, band, img, img_norm, ndviVars, maskVars, indexVars>>

NormalizeImage ==
    /\ pc = "img"
    /\ img_norm' = normalize_image(img)
    /\ pc' = "img_norm"
    /\ UNCHANGED <<fetchVars, apiVars, band, band_norm, img, ndviVars, maskVars, indexVars>>

NextNormalize == NormalizeBand \/ NormalizeImage

SpecNormalize == InitNormalize /\ [][NextNormalize]_vars

-----------------------------------------------------------------------------
(* Claims about the normaliser *)

IsConstant(f) == \A i, j \in DOMAIN f : Eq(f[i], f[j])
AllZero(f) == \A i \in DOMAIN f : f[i].d # 0 /\ f[i].n = 0
\* minimum 0, maximum 1, every value in between
RangeIsUnit(f) ==
    /\ \A i \in DOMAIN f : f[i].d > 0 /\ 0 <= f[i].n /\ f[i].n <= f[i].d
    /\ \E i \in DOMAIN f : f[i].d # 0 /\ f[i].n = 0
    /\ \E i \in DOMAIN f : f[i].d # 0 /\ f[i].n = f[i].d
NormalizedAsSpecified(f, g) == IF IsConstant(f) THEN AllZero(g) ELSE RangeIsUnit(g)

\* the channels of an image, as a sequence of rasters
Channels(im) == IF im.ndim = 3 THEN im.data ELSE <<im.data>>

\* C5: normalize(R) has range exactly [0, 1] (minimum 0, maximum 1) unless R
\* is constant, in which case the output is all-zero.
C5_NormalizeRangeOrZero ==
    /\ pc = "band_norm" => NormalizedAsSpecified(band, band_norm)
    /\ pc = "img_norm" =>
        \A c \in DOMAIN Channels(img) :
            NormalizedAsSpecified(Channels(img)[c], Channels(img_norm)[c])

\* C6: whenever the clipped raster has max = min, normalize returns an
\* all-zero raster and no NaN.
C6_DegenerateIsZero ==
    /\ pc = "band_norm" =>
        /\ \A i \in DOMAIN band_norm : ~IsNaN(band_norm[i])
        /\ IsConstant(BandClipped(band)) => AllZero(band_norm)
    /\ pc = "img_norm" =>
        \A c \in DOMAIN Channels(img) :
            /\ \A i \in DOMAIN Channels(img_norm)[c] : ~IsNaN(Channels(img_norm)[c][i])
            /\ IsConstant(Channels(img)[c]) => AllZero(Channels(img_norm)[c])

-----------------------------------------------------------------------------
(* change_detector.py: detect_deforestation (mask-subtraction mode) *)

Max2(a, b) == IF a >= b THEN a ELSE b
Min2(a, b) == IF a <= b THEN a ELSE b

\* cv2.cvtColor(..., COLOR_BGR2HSV) on 8-bit pixels: OpenCV's fixed-point
\* conversion (hsv_shift = 12, hue range 180), px = <<b, g, r>>
HsvShift == 12
HueRange == 180
\* saturate_cast<int>(x / y), nearest integer; no tie occurs for y in 1..255
RoundDiv(x, y) == (2 * x + y) \div (2 * y)
SDivTable(i) == IF i = 0 THEN 0 ELSE RoundDiv(255 * 2^HsvShift, i)
HDivTable(i) == IF i = 0 THEN 0 ELSE RoundDiv(HueRange * 2^HsvShift, 6 * i)
BGR2HSV(px) ==
    LET b == px[1]
        g == px[2]
        r == px[3]
        v == Max2(b, Max2(g, r))
        vmin == Min2(b, Min2(g, r))
        diff == v - vmin
        sat == (diff * SDivTable(v) + 2^(HsvShift - 1)) \div 2^HsvShift
        h0 == IF v = r THEN g - b
              ELSE IF v = g THEN b - r + 2 * diff
              ELSE r - g + 4 * diff
        h1 == (h0 * HDivTable(diff) + 2^(HsvShift - 1)) \div 2^HsvShift
        hue == IF h1 < 0 THEN h1 + HueRange ELSE h1
    IN  <<hue, sat, v>>

\* lines 25-26
lower_green == <<35, 40, 20>>
upper_green == <<90, 255, 255>>

\* the bug of a range that leaves its two ends out
InRangePixelOpen(hsv, lower, upper) ==
    IF \A k \in 1..3 : lower[k] < hsv[k] /\ hsv[k] < upper[k] THEN 255 ELSE 0

\* cv2.inRange: 255 where every channel lies within [lower, upper], else 0
InRangePixel(hsv, lower, upper) ==
    IF \A k \in 1..3 : lower[k] <= hsv[k] /\ hsv[k] <= upper[k] THEN 255 ELSE 0

VegetationMask(im) ==
    [p \in DOMAIN im |-> InRangePixel(BGR2HSV(im[p]), lower_green, upper_green)]

\* the bug of a numpy subtraction on uint8 masks: 0 - 255 wraps around to 1
SubtractWrapPixel(a, b) == (a - b) % 256

\* cv2.subtract on 8-bit values saturates: max(a - b, 0)
SubtractPixel(a, b) == IF a - b < 0 THEN 0 ELSE a - b

Subtract(m1, m2) == [p \in DOMAIN m1 |-> SubtractPixel(m1[p], m2[p])]

\* line 36: kernel = np.ones((5, 5), np.uint8), anchored at its centre
KernelSize == 5
KernelRadius(k) == (k - 1) \div 2
\* the pixels of the image under the kernel centred at p; pixels outside the
\* image take no part (OpenCV's default border for erosion and dilation)
Window(m, p, k) ==
    {q \in DOMAIN m : /\ Abs(q[1] - p[1]) <= KernelRadius(k)
                      /\ Abs(q[2] - p[2]) <= KernelRadius(k)}

Erode(m, k) ==
    [p \in DOMAIN m |-> IF \A q \in Window(m, p, k) : m[q] > 0 THEN 255 ELSE 0]
Dilate(m, k) ==
    [p \in DOMAIN m |-> IF \E q \in Window(m, p, k) : m[q] > 0 THEN 255 ELSE 0]

\* the bug of a closing (cv2.MORPH_CLOSE): dilation, then erosion
MorphClose(m) == Erode(Dilate(m, KernelSize), KernelSize)

\* the bug of a 3x3 structuring element
MorphOpenSmall(m) == Dilate(Erode(m, 3), 3)

\* cv2.morphologyEx(loss_mask, cv2.MORPH_OPEN, kernel): erosion, then dilation
MorphOpen(m) == Dilate(Erode(m, KernelSize), KernelSize)

\* np.sum(mask > 0)
Area(m) == Cardinality({p \in DOMAIN m : m[p] > 0})

\* round(x, 2) of a float x >= 0: the nearest multiple of 0.01, ties to even
Round2(x) ==
    IF IsNaN(x) THEN NaN ELSE
    LET fl == (100 * x.n) \div x.d
        rem == (100 * x.n) % x.d
        k == IF 2 * rem < x.d THEN fl
             ELSE IF 2 * rem > x.d THEN fl + 1
             ELSE IF fl % 2 = 0 THEN fl ELSE fl + 1
    IN  Quot(k, 100)

\* the bug of a division without the zero-area branch
PercentLossUnguarded(loss_area, before_area) ==
    Mul(Div(FromInt(loss_area), FromInt(before_area)), FromInt(100))

\* lines 43-46
PercentLoss(loss_area, before_area) ==
    IF before_area = 0 THEN FromInt(0)
    ELSE Mul(Div(FromInt(loss_area), FromInt(before_area)), FromInt(100))

\* cv2.resize(after, (width, height)); the two images of this model share one
\* shape, for which the resize returns the image unchanged
Resize(im, shape) == im

(* Inputs: images over a palette of BGR colours *)

ForestGreen == <<34, 139, 34>>   \* hue 60, saturated, bright: vegetation
BareSoil == <<19, 69, 139>>      \* hue 13: no vegetation
DarkGreen == <<0, 16, 0>>        \* hue 60 but value 16 < 20: no vegetation
Palette == {ForestGreen, BareSoil, DarkGreen}

Grid == (1..ImgHeight) \X (1..ImgWidth)
Rect(r1, r2, c1, c2) ==
    {p \in Grid : r1 <= p[1] /\ p[1] <= r2 /\ c1 <= p[2] /\ p[2] <= c2}
Rects == {Rect(r1, r2, c1, c2) : r1 \in 1..ImgHeight, r2 \in 1..ImgHeight,
                                 c1 \in 1..ImgWidth, c2 \in 1..ImgWidth}
\* the top rows of the image: none of them, some, or the whole image
TopRows == {Rect(1, r2, 1, ImgWidth) : r2 \in 0..ImgHeight}

\* a single pixel of the top row or the left column, or none
Spots == {{p} : p \in {q \in Grid : q[1] = 1 \/ q[2] = 1}} \cup {{}}

\* an image of bare soil with forest on the pixels of region
Scene(region) == [p \in Grid |-> IF p \in region THEN ForestGreen ELSE BareSoil]
\* image im with the pixels of region repainted
Paint(im, region, colour) == [p \in DOMAIN im |-> IF p \in region THEN colour ELSE im[p]]

InitMask ==
    /\ pc = "loaded"
    /\ \E forest \in TopRows : before = Scene(forest)
    /\ \E region \in Rects, colour \in Palette, spot \in Spots :
            after = Paint(Paint(before, region, colour), spot, BareSoil)
    /\ before_mask = None /\ after_mask = None /\ loss_mask = None /\ result = None
    /\ IdleNdvi /\ IdleNorm /\ IdleIndex /\ IdleFetch /\ IdleApi

\* lines 17-30: resize, convert to HSV, mask the vegetation
MaskVegetation ==
    /\ pc = "loaded"
    /\ LET resized == Resize(after, DOMAIN before)
       IN  /\ after' = resized
           /\ before_mask' = VegetationMask(before)
           /\ after_mask' = VegetationMask(resized)
    /\ pc' = "masked"
    /\ UNCHANGED <<fetchVars, apiVars, before, loss_mask, result, ndviVars, normVars, indexVars>>

\* line 33: loss_mask = cv2.subtract(before_mask, after_mask)
SubtractMasks ==
    /\ pc = "masked"
    /\ loss_mask' = Subtract(before_mask, after_mask)
    /\ pc' = "subtracted"
    /\ UNCHANGED <<fetchVars, apiVars, before, after, before_mask, after_mask, result,
                   ndviVars, normVars, indexVars>>

\* lines 36-37: loss_mask = cv2.morphologyEx(loss_mask, cv2.MORPH_OPEN, kernel)
OpenLossMask ==
    /\ pc = "subtracted"
    /\ loss_mask' = MorphOpen(loss_mask)
    /\ pc' = "opened"
    /\ UNCHANGED <<fetchVars, apiVars, before, after, before_mask, after_mask, result,
                   ndviVars, normVars, indexVars>>

\* lines 40-65: the areas, percent_loss and the returned record (the overlay
\* written to output_path is a file, not part of this state)
ReturnStatistics ==
    /\ pc = "opened"
    /\ LET before_area == Area(before_mask)
           loss_area == Area(loss_mask)
       IN  result' = [before_area |-> before_area,
                      loss_area |-> loss_area,
                      percent_loss |-> Round2(PercentLoss(loss_area, before_area))]
    /\ pc' = "returned"
    /\ UNCHANGED <<fetchVars, apiVars, before, after, before_mask, after_mask, loss_mask,
                   ndviVars, normVars, indexVars>>

NextMask == MaskVegetation \/ SubtractMasks \/ OpenLossMask \/ ReturnStatistics

SpecMask == InitMask /\ [][NextMask]_vars

-----------------------------------------------------------------------------
(* Claims about mask-subtraction mode *)

\* the pixels set in before_mask and cleared in after_mask
Cleared == {p \in DOMAIN before_mask : before_mask[p] > 0 /\ after_mask[p] = 0}
\* after_mask is before_mask with some of its set pixels cleared, nothing else
OnlyCleared == \A p \in DOMAIN before_mask : after_mask[p] > 0 => before_mask[p] > 0
\* the cleared pixels that lie in a 5x5 window (cut at the image border) whose
\* pixels are all cleared
ClearedInFullWindow ==
    {p \in Cleared :
        \E q \in DOMAIN before_mask :
            /\ Abs(p[1] - q[1]) <= 2 /\ Abs(p[2] - q[2]) <= 2
            /\ \A x \in DOMAIN before_mask :
                (Abs(x[1] - q[1]) <= 2 /\ Abs(x[2] - q[2]) <= 2) => x \in Cleared}

C10_SubtractionIsAndNot ==
    pc = "subtracted" =>
        \A p \in DOMAIN loss_mask :
            /\ loss_mask[p] \in {0, 255}
            /\ (loss_mask[p] = 255) <=> (before_mask[p] = 255 /\ after_mask[p] = 0)

\* a gained pixel (clamped to 0) beside a lost pixel
C10_Witness ==
    /\ pc = "subtracted"
    /\ \E p, q \in DOMAIN loss_mask :
        /\ before_mask[p] = 0 /\ after_mask[p] = 255 /\ loss_mask[p] = 0
        /\ before_mask[q] = 255 /\ after_mask[q] = 0 /\ loss_mask[q] = 255

-----------------------------------------------------------------------------
(* Index-difference mode: simple_visualizer.py and improved_visualizer.py *)

RECURSIVE SumUpTo(_, _)
SumUpTo(f, k) == IF k = 0 THEN FromInt(0) ELSE Add(SumUpTo(f, k - 1), f[k])
\* ndarray.mean() of a raster indexed 1..n
Mean(f) == Div(SumUpTo(f, Len(f)), FromInt(Len(f)))

IsSquare(k) == \E r \in 0..k : r * r = k
ISqrt(k) == CHOOSE r \in 0..k : r * r = k
\* ndarray.std(): the population standard deviation.  The rasters of this
\* model are those whose variance has a rational square root.
Variance(f) ==
    LET m == Mean(f)
    IN  Mean([i \in DOMAIN f |-> Mul(Sub(f[i], m), Sub(f[i], m))])
HasRationalStd(f) == \E v \in {Variance(f)} : IsSquare(v.n) /\ IsSquare(v.d)
Std(f) == Rat(ISqrt(Variance(f).n), ISqrt(Variance(f).d))

\* lines 78-86 (both visualizers): np.mean(img, axis=2) of a colour image
ToGrey(im) ==
    IF im.ndim = 3
    THEN AsArray([i \in DOMAIN im.data[1] |->
                    Mean([c \in DOMAIN im.data |-> im.data[c][i]])])
    ELSE im.data

\* simple_visualizer.py line 176
Epsilon == Rat(1, 100000000)

\* (img - img.mean()) / img.std()
ZScore(f) ==
    LET m == Mean(f)
        sd == Std(f)
    IN  AsArray([i \in DOMAIN f |-> Div(Sub(f[i], m), sd)])

\* line 176: (img2_norm - img1_norm) / (img1_norm + img2_norm + 1e-8)
NormalizedRatio(img1_norm, img2_norm) ==
    AsArray([i \in DOMAIN img1_norm |->
                Div(Sub(img2_norm[i], img1_norm[i]),
                    Add(Add(img1_norm[i], img2_norm[i]), Epsilon))])

(* Arrays of the visualizers: [ndim, shape, data] with shape = <<height,
   width>> and data the samples in row-major order (ndim = 2) or one such
   raster per colour channel (ndim = 3) *)

Size(shape) == shape[1] * shape[2]
At(r, c, shape) == (r - 1) * shape[2] + c
RowOf(i, shape) == ((i - 1) \div shape[2]) + 1
ColOf(i, shape) == ((i - 1) % shape[2]) + 1

\* ndarray.shape
NpShape(im) ==
    IF im.ndim = 3 THEN <<im.shape[1], im.shape[2], Len(im.data)>> ELSE im.shape

\* arr[:h, :w]
Crop(im, h, w) ==
    LET cut(d) == AsArray([i \in 1..(h * w) |->
                        d[At(RowOf(i, <<h, w>>), ColOf(i, <<h, w>>), im.shape)]])
    IN  [ndim |-> im.ndim,
         shape |-> <<h, w>>,
         data |-> IF im.ndim = 3 THEN [c \in DOMAIN im.data |-> cut(im.data[c])]
                  ELSE cut(im.data)]

\* simple_visualizer.py lines 49-57: arrays of different shape are both cut
\* to the top-left min-height x min-width corner
CropToCommon(a, b) ==
    IF NpShape(a) # NpShape(b)
    THEN LET min_height == Min2(a.shape[1], b.shape[1])
             min_width == Min2(a.shape[2], b.shape[2])
         IN  <<Crop(a, min_height, min_width), Crop(b, min_height, min_width)>>
    ELSE <<a, b>>

\* numpy broadcasting of two 2-D operands
Broadcastable(s, t) == \A k \in 1..2 : s[k] = t[k] \/ s[k] = 1 \/ t[k] = 1
BroadcastShape(s, t) == <<Max2(s[1], t[1]), Max2(s[2], t[2])>>
BroadcastTo(f, s, t) ==
    AsArray([i \in 1..Size(t) |->
        f[At(IF s[1] = 1 THEN 1 ELSE RowOf(i, t),
             IF s[2] = 1 THEN 1 ELSE ColOf(i, t), s)]])

\* np.hstack of two arrays: equal ndim and equal extent on every axis but 1
HStackable(a, b) == a.ndim = b.ndim /\ a.shape[1] = b.shape[1]

\* scipy.ndimage.gaussian_filter(change, sigma=1.0): truncate = 4.0 gives a
\* kernel of radius 4 with weights exp(-k^2 / 2) / sum, here in units of
\* 1/100 before the division by their sum; mode 'reflect' at the border.
\* The filter runs gaussian_filter1d along axis 0 and then along axis 1.
GaussRadius == 4
GaussWeight(k) ==
    LET a == Abs(k)
    IN  IF a = 0 THEN 100 ELSE IF a = 1 THEN 61 ELSE IF a = 2 THEN 14
        ELSE IF a = 3 THEN 1 ELSE 0
GaussWeightSum == 252
\* index i extended beyond 1..n by reflection about the edge of the last pixel
Reflect(i, n) ==
    LET m == (i - 1) % (2 * n)
    IN  IF m < n THEN m + 1 ELSE 2 * n - m

\* the neighbour of pixel i at offset k along the axis
Neighbour(i, k, shape, axis) ==
    IF axis = 0
    THEN At(Reflect(RowOf(i, shape) + k, shape[1]), ColOf(i, shape), shape)
    ELSE At(RowOf(i, shape), Reflect(ColOf(i, shape) + k, shape[2]), shape)

RECURSIVE GaussAccumulate(_, _, _, _, _)
GaussAccumulate(f, shape, axis, i, k) ==
    LET term == Mul(Rat(GaussWeight(k), GaussWeightSum), f[Neighbour(i, k, shape, axis)])
    IN  IF k = -GaussRadius THEN term
        ELSE Add(GaussAccumulate(f, shape, axis, i, k - 1), term)
gaussian_filter1d(f, shape, axis) ==
    AsArray([i \in 1..Size(shape) |-> GaussAccumulate(f, shape, axis, i, GaussRadius)])
gaussian_filter(f, shape) == gaussian_filter1d(gaussian_filter1d(f, shape, 0), shape, 1)

\* line 169: img_2025_norm - img_2000_norm, the operands broadcast to a
\* common shape
Difference(img_2000_norm, sa, img_2025_norm, sb) ==
    LET shape == BroadcastShape(sa, sb)
        x == BroadcastTo(img_2000_norm, sa, shape)
        y == BroadcastTo(img_2025_norm, sb, shape)
    IN  AsArray([i \in 1..Size(shape) |-> Sub(y[i], x[i])])

\* lines 173-176: the smoothed difference, or the difference itself when
\* the filter raises
SmoothOrKeep(change, shape, filter_raises) ==
    IF filter_raises THEN change ELSE gaussian_filter(change, shape)

LossThreshold == Rat(-1, 10)
GainThreshold == Rat(1, 10)
\* the thresholds with closed comparisons
IsLossClosed(x) == Le(x, LossThreshold)
IsLoss(x) == Lt(x, LossThreshold)
IsGain(x) == Gt(x, GainThreshold)
\* np.sum(change_map < -0.1) and np.sum(change_map > 0.1)
CountLoss(f) == Cardinality({i \in DOMAIN f : IsLoss(f[i])})
CountGain(f) == Cardinality({i \in DOMAIN f : IsGain(f[i])})
Percent(k, total) == Mul(Div(FromInt(k), FromInt(total)), FromInt(100))

\* SimpleEnhancedVisualizer._create_summary_report_simple ("results")
create_summary_report_simple(m) ==
    LET total_pixels == Len(m)
        loss_pixels == CountLoss(m)
        gain_pixels == CountGain(m)
    IN  [total_pixels |-> total_pixels,
         forest_loss_percentage |-> Percent(loss_pixels, total_pixels),
         forest_gain_percentage |-> Percent(gain_pixels, total_pixels),
         stable_percentage |-> Percent(total_pixels - loss_pixels - gain_pixels, total_pixels),
         net_change_percentage |-> Percent(gain_pixels - loss_pixels, total_pixels)]

\* the report with the gain pixels left in the stable count
create_summary_report_gain_kept(m) ==
    LET total_pixels == Len(m)
        forest_loss_pixels == CountLoss(m)
        forest_gain_pixels == CountGain(m)
        stable_pixels == total_pixels - forest_loss_pixels
    IN  [total_pixels_analyzed |-> total_pixels,
         forest_loss_pixels |-> forest_loss_pixels,
         forest_gain_pixels |-> forest_gain_pixels,
         stable_pixels |-> stable_pixels,
         forest_loss_percentage |-> Percent(forest_loss_pixels, total_pixels),
         forest_gain_percentage |-> Percent(forest_gain_pixels, total_pixels),
         stable_percentage |-> Percent(stable_pixels, total_pixels),
         net_change_percentage |-> Percent(forest_gain_pixels - forest_loss_pixels, total_pixels)]

\* ImprovedVisualizationProcessor._create_summary_report ("statistics")
create_summary_report(m) ==
    LET total_pixels == Len(m)
        forest_loss_pixels == CountLoss(m)
        forest_gain_pixels == CountGain(m)
        stable_pixels == total_pixels - forest_loss_pixels - forest_gain_pixels
    IN  [total_pixels_analyzed |-> total_pixels,
         forest_loss_pixels |-> forest_loss_pixels,
         forest_gain_pixels |-> forest_gain_pixels,
         stable_pixels |-> stable_pixels,
         forest_loss_percentage |-> Percent(forest_loss_pixels, total_pixels),
         forest_gain_percentage |-> Percent(forest_gain_pixels, total_pixels),
         stable_percentage |-> Percent(stable_pixels, total_pixels),
         net_change_percentage |-> Percent(forest_gain_pixels - forest_loss_pixels, total_pixels)]

(* Inputs: grey pictures of the shapes below and colour pictures of one row,
   whose channels all hold the grey raster.
   The simple dashboard is run on samples 0, 1, 4, .. MaxRoot^2, among which
   are rasters with a rational standard deviation and z-scores other than
   -1 and 1; the enhanced comparison on the samples below MaxRoot^2. *)

Levels(root) == {FromInt(k * k) : k \in 0..root}
\* every shape up to IndexHeight x IndexWidth and one wider row, which does
\* not broadcast against a raster of IndexWidth columns
Shapes == ((1..IndexHeight) \X (1..IndexWidth)) \cup {<<1, IndexWidth + 1>>}
AsColour(shape, d) ==
    [ndim |-> 3, shape |-> shape, data |-> [c \in 1..NumChannels |-> d]]
Pictures(levels) ==
    UNION {{[ndim |-> 2, shape |-> shape, data |-> d] : d \in [1..Size(shape) -> levels]}
           : shape \in Shapes}
    \cup {AsColour(<<1, IndexWidth>>, d) : d \in [1..IndexWidth -> levels]}
SimplePictures(root) == Pictures(Levels(root))
ImprovedPictures(root) == Pictures(Levels(root - 1))
\* the grey rasters of the simple dashboard whose standard deviation is rational
RationalStdRasters(root) ==
    {d \in UNION {[1..Size(shape) -> Levels(root)] : shape \in Shapes} :
        HasRationalStd(d)}

\* the environment of the smoothing step: scipy.ndimage imports and its
\* filter runs, or the filter raises, or the import fails
NdimageStates == {"works", "raises", "missing"}

InitIndex ==
    \E simple \in {SimplePictures(MaxRoot)}, improved \in {ImprovedPictures(MaxRoot)},
       rational \in {RationalStdRasters(MaxRoot)} :
        /\ pc \in {"simple_loaded", "improved_loaded"}
        /\ arr_2000 \in IF pc = "simple_loaded" THEN simple ELSE improved
        /\ arr_2025 \in IF pc = "simple_loaded" THEN simple ELSE improved
        /\ ndimage \in IF pc = "improved_loaded" THEN NdimageStates ELSE {None}
        /\ pc = "simple_loaded" =>
            \E cut \in {CropToCommon(arr_2000, arr_2025)} :
                /\ ToGrey(cut[1]) \in rational
                /\ ToGrey(cut[2]) \in rational
        /\ img_2000 = None
        /\ img_2025 = None
        /\ change_map = None
        /\ report = None
        /\ IdleNdvi /\ IdleNorm /\ IdleMask /\ IdleFetch /\ IdleApi

\* simple_visualizer.py lines 49-60, 78-89 and 169-178: the crop to a common
\* shape, the grey conversion and _simple_change_detection
SimpleChangeDetection ==
    /\ pc = "simple_loaded"
    /\ \E cut \in {CropToCommon(arr_2000, arr_2025)} :
       \E gray_2000 \in {ToGrey(cut[1])}, gray_2025 \in {ToGrey(cut[2])} :
       \E img1_norm \in {ZScore(gray_2000)}, img2_norm \in {ZScore(gray_2025)} :
            /\ img_2000' = cut[1]
            /\ img_2025' = cut[2]
            /\ change_map' = NormalizedRatio(img1_norm, img2_norm)
    /\ pc' = "simple_changed"
    /\ UNCHANGED <<fetchVars, apiVars, arr_2000, arr_2025, ndimage, report, ndviVars, normVars, maskVars>>

\* simple_visualizer.py line 167
CreateSummaryReportSimple ==
    /\ pc = "simple_changed"
    /\ report' = create_summary_report_simple(change_map)
    /\ pc' = "simple_reported"
    /\ UNCHANGED <<fetchVars, apiVars, arr_2000, arr_2025, ndimage, img_2000, img_2025, change_map,
                   ndviVars, normVars, maskVars>>

\* improved_visualizer.py lines 50, 65-76 and 162-178: the arrays are handed
\* on as loaded; grey conversion and _calculate_change_detection.  Operands
\* that do not broadcast raise at line 169 and a failed import raises at line
\* 172; either exception leaves at line 54, where create_enhanced_comparison
\* returns False.
CalculateChangeDetection ==
    /\ pc = "improved_loaded"
    /\ img_2000' = arr_2000
    /\ img_2025' = arr_2025
    /\ IF Broadcastable(arr_2000.shape, arr_2025.shape) /\ ndimage # "missing"
       THEN /\ \E gray_2000 \in {ToGrey(arr_2000)}, gray_2025 \in {ToGrey(arr_2025)} :
               \E img_2000_norm \in {MinMaxScale(gray_2000)},
                  img_2025_norm \in {MinMaxScale(gray_2025)} :
               \E change \in {Difference(img_2000_norm, arr_2000.shape,
                                         img_2025_norm, arr_2025.shape)} :
                    change_map' = SmoothOrKeep(change,
                                    BroadcastShape(arr_2000.shape, arr_2025.shape),
                                    ndimage = "raises")
            /\ pc' = "improved_changed"
       ELSE /\ change_map' = change_map
            /\ pc' = "improved_failed"
    /\ UNCHANGED <<fetchVars, apiVars, arr_2000, arr_2025, ndimage, report, ndviVars, normVars, maskVars>>

\* improved_visualizer.py lines 111-114: the side-by-side panel stacks the
\* two images; np.hstack raises unless they stack, and the exception leaves
\* at line 54
SideBySideComparison ==
    /\ pc = "improved_changed"
    /\ pc' = IF HStackable(img_2000, img_2025) THEN "improved_plotted"
             ELSE "improved_failed"
    /\ UNCHANGED <<fetchVars, apiVars, indexVars, ndviVars, normVars, maskVars>>

\* improved_visualizer.py line 160
CreateSummaryReport ==
    /\ pc = "improved_plotted"
    /\ report' = create_summary_report(change_map)
    /\ pc' = "improved_reported"
    /\ UNCHANGED <<fetchVars, apiVars, arr_2000, arr_2025, ndimage, img_2000, img_2025, change_map,
                   ndviVars, normVars, maskVars>>

NextIndex ==
    \/ SimpleChangeDetection
    \/ CreateSummaryReportSimple
    \/ CalculateChangeDetection
    \/ SideBySideComparison
    \/ CreateSummaryReport

SpecIndex == InitIndex /\ [][NextIndex]_vars

-----------------------------------------------------------------------------
(* Claims about change detection of an image against itself *)

\* C7: detect_change(X, X) yields a ChangeMap that is zero at every pixel and
\* statistics of 100% stable, 0% loss, 0% gain, in mask-subtraction mode and
\* in index-difference mode, constant rasters included.
C7_SelfChangeIsZero ==
    /\ (pc \in {"opened", "returned"} /\ before = after) =>
            \A p \in DOMAIN loss_mask : loss_mask[p] = 0
    /\ (pc = "returned" /\ before = after) => result.percent_loss = FromInt(0)
    /\ (pc \in {"simple_changed", "simple_reported",
                "improved_changed", "improved_plotted", "improved_reported"}
            /\ img_2000.shape = img_2025.shape
            /\ ToGrey(img_2000) = ToGrey(img_2025)) =>
            \A i \in DOMAIN change_map : change_map[i] = FromInt(0)
    /\ (pc \in {"simple_reported", "improved_reported"}
            /\ img_2000.shape = img_2025.shape
            /\ ToGrey(img_2000) = ToGrey(img_2025)) =>
            /\ report.stable_percentage = FromInt(100)
            /\ report.forest_loss_percentage = FromInt(0)
            /\ report.forest_gain_percentage = FromInt(0)

-----------------------------------------------------------------------------
(* The two summary reports as pure functions of an arbitrary ChangeMap *)

\* change values on a grid of tenths, values just inside and just outside
\* the two thresholds, and the NaN that a 0/0 leaves in a ChangeMap
NearThreshold == {Rat(-1001, 10000), Rat(-999, 10000), Rat(999, 10000), Rat(1001, 10000)}
ChangeValues == {Rat(k, 10) : k \in -MaxTenths..MaxTenths} \cup NearThreshold \cup {NaN}

InitReport ==
    /\ pc \in {"simple_changed", "improved_plotted"}
    /\ arr_2000 = None /\ arr_2025 = None /\ ndimage = None
    /\ img_2000 = None
    /\ img_2025 = None
    /\ change_map \in [Pixels -> ChangeValues]
    /\ report = None
    /\ IdleNdvi /\ IdleNorm /\ IdleMask /\ IdleFetch /\ IdleApi

NextReport == CreateSummaryReportSimple \/ CreateSummaryReport

SpecReport == InitReport /\ [][NextReport]_vars

-----------------------------------------------------------------------------
(* Claims about the summary statistics *)

\* the pixels strictly below -0.1 and strictly above 0.1, in integers
BelowLoss == {i \in DOMAIN change_map :
                change_map[i].d # 0 /\ 10 * change_map[i].n < -change_map[i].d}
AboveGain == {i \in DOMAIN change_map :
                change_map[i].d # 0 /\ 10 * change_map[i].n > change_map[i].d}

\* C11: with the default thresholds a pixel is loss iff its change is
\* strictly below -0.1, gain iff strictly above 0.1 and stable otherwise, so
\* a pixel of exactly -0.1 or 0.1 is stable; both reports count this way.
C11_ThresholdsStrict ==
    /\ pc = "improved_reported" =>
        /\ report.forest_loss_pixels = Cardinality(BelowLoss)
        /\ report.forest_gain_pixels = Cardinality(AboveGain)
        /\ report.stable_pixels =
                Cardinality(DOMAIN change_map \ (BelowLoss \cup AboveGain))
    /\ pc = "simple_reported" =>
        /\ report.forest_loss_percentage =
                Percent(Cardinality(BelowLoss), Len(change_map))
        /\ report.forest_gain_percentage =
                Percent(Cardinality(AboveGain), Len(change_map))
        /\ report.stable_percentage =
                Percent(Cardinality(DOMAIN change_map \ (BelowLoss \cup AboveGain)),
                        Len(change_map))

\* a report over a map holding exactly -0.1 and exactly 0.1, all stable
C11_Witness ==
    /\ pc = "improved_reported"
    /\ \E i, j \in DOMAIN change_map :
            change_map[i] = Rat(-1, 10) /\ change_map[j] = Rat(1, 10)
    /\ report.stable_pixels = Len(change_map)
    /\ report.forest_loss_pixels = 0
    /\ report.forest_gain_pixels = 0

-----------------------------------------------------------------------------
(* Claims about the change map of index-difference mode *)

\* the positions at which the change map of a pipeline exists
SimpleChanged == pc \in {"simple_changed", "simple_reported"}
ImprovedChanged == pc \in {"improved_changed", "improved_plotted", "improved_reported"}
Reported == pc \in {"simple_reported", "improved_reported"}

\* the example rasters: a 2 x 2 "before" of zeros and a 2 x 2 "after" of ones
ZerosThenOnes ==
    /\ img_2000.shape = <<2, 2>>
    /\ img_2025.shape = <<2, 2>>
    /\ \A i \in 1..4 : ToGrey(img_2000)[i] = FromInt(0) /\ ToGrey(img_2025)[i] = FromInt(1)

\* C13: with before = [[0,0],[0,0]] and after = [[1,1],[1,1]] the change map is
\* positive at every pixel, every pixel is a gain under the default
\* thresholds, and the net change is above zero.
C13_ZerosToOnesIsGain ==
    /\ ((SimpleChanged \/ ImprovedChanged) /\ ZerosThenOnes) =>
            \A i \in DOMAIN change_map :
                Gt(change_map[i], FromInt(0)) /\ Gt(change_map[i], GainThreshold)
    /\ (Reported /\ ZerosThenOnes) =>
            /\ report.forest_gain_percentage = FromInt(100)
            /\ Gt(report.net_change_percentage, FromInt(0))

\* the normalised rasters the change map was computed from
NormBefore == IF SimpleChanged THEN ZScore(ToGrey(img_2000)) ELSE MinMaxScale(ToGrey(img_2000))
NormAfter == IF SimpleChanged THEN ZScore(ToGrey(img_2025)) ELSE MinMaxScale(ToGrey(img_2025))

\* C14: at every pixel the change value is negative only if the normalised
\* "after" value is below the normalised "before" value and positive only if
\* it is above it, whatever the sign of the normalised values.
C14_SignFollowsDifference ==
    ((SimpleChanged \/ ImprovedChanged) /\ img_2000.shape = img_2025.shape) =>
        \A i \in DOMAIN change_map :
            /\ Lt(change_map[i], FromInt(0)) => Lt(NormAfter[i], NormBefore[i])
            /\ Gt(change_map[i], FromInt(0)) => Gt(NormAfter[i], NormBefore[i])

\* C15: the relative change (after_norm - before_norm) / (after_norm +
\* before_norm + 1e-8) of the simple dashboard lies in [-1, 1] at every pixel
\* where it is a number.
C15_RelativeChangeBounded ==
    SimpleChanged =>
        \A i \in DOMAIN change_map :
            ~IsNaN(change_map[i]) =>
                Le(change_map[i], FromInt(1)) /\ Ge(change_map[i], FromInt(-1))

\* C16: every value of the change map and every percentage of the report is
\* a finite number, constant before or after rasters included.
C16_NoNaNInStatistics ==
    /\ (SimpleChanged \/ ImprovedChanged) =>
            \A i \in DOMAIN change_map : ~IsNaN(change_map[i])
    /\ Reported =>
            /\ ~IsNaN(report.forest_loss_percentage)
            /\ ~IsNaN(report.forest_gain_percentage)
            /\ ~IsNaN(report.stable_percentage)
            /\ ~IsNaN(report.net_change_percentage)

-----------------------------------------------------------------------------
(* Claims about rasters of different dimensions and about the smoothing step *)

Loaded == pc \in {"simple_loaded", "improved_loaded"}

\* C17: when the two rasters differ in height or width the change detector
\* signals the mismatch to its caller; it computes no change map from cropped
\* or otherwise adjusted rasters.
C17_ShapeMismatchSignalled ==
    (~Loaded /\ arr_2000.shape # arr_2025.shape) => pc = "improved_failed"

\* C18: every comparison entry point brings the two rasters to the same height
\* and width before it compares them pixel by pixel: wherever a change map
\* exists, the two rasters it was computed from have one shape.
C18_ComparedRastersShareShape ==
    (SimpleChanged \/ ImprovedChanged) => img_2000.shape = img_2025.shape

\* C19: when the smoothing step fails, by an exception of the filter or by
\* the failing import of scipy, the detector returns the unsmoothed change
\* map and the analysis goes on.
C19_SmoothingFailureFallsBack ==
    (/\ pc \notin {"simple_loaded", "simple_changed", "simple_reported", "improved_loaded"}
     /\ ndimage \in {"raises", "missing"}
     /\ Broadcastable(img_2000.shape, img_2025.shape)) =>
        change_map = Difference(MinMaxScale(ToGrey(img_2000)), img_2000.shape,
                                MinMaxScale(ToGrey(img_2025)), img_2025.shape)

-----------------------------------------------------------------------------
(* Image download with an ordered list of fallback sources *)

\* satellite_fetcher.py lines 73-108: the source names get_imagery_urls lists,
\* in the order of their URLs
get_imagery_urls == <<"NASA GIBS MODIS Terra", "NASA GIBS VIIRS">>

\* enhanced_satellite_fetcher.py lines 99-166: three high-quality sources and
\* one standard source, in the order of their URLs
get_high_quality_imagery_urls ==
    <<"NASA GIBS MODIS Terra", "NASA GIBS VIIRS", "NASA GIBS Landsat", "NASA Worldview">>

\* hybrid_nasa_fetcher.py lines 269-273: the URLs fetch_enhanced_comparison
\* hands to download_image_with_fallback
urls == <<"enhanced_worldview_url", "nasa_gibs_url MODIS_Terra", "nasa_gibs_url VIIRS_SNPP">>

\* working_nasa_fetcher.py lines 77-107: the URLs get_working_imagery_urls
\* returns, which fetch_working_comparison hands to download_image_with_retry
get_working_imagery_urls == <<"worldview_url", "worldview_viirs_url">>

Fetchers ==
    {"download_image", "download_best_quality_image", "download_image_with_fallback",
     "download_image_with_retry"}

\* the two routines that return a bare bool instead of a dict
ReturnsBool(f) == f \in {"download_image_with_fallback", "download_image_with_retry"}

SourcesOf(f) ==
    IF f = "download_image" THEN get_imagery_urls
    ELSE IF f = "download_best_quality_image" THEN get_high_quality_imagery_urls
    ELSE IF f = "download_image_with_retry" THEN get_working_imagery_urls
    ELSE urls

\* enhanced_satellite_fetcher.py line 199: a file counts when file_size > 5000
MinFileSize == 5000
\* hybrid_nasa_fetcher.py line 233: a file of st_size < 1000 is too small
MinFallbackSize == 1000
\* working_nasa_fetcher.py line 277: a file counts when st_size > 1000
MinRetrySize == 1000

\* the body sizes a source can answer with, on both sides of the two limits
FileSizes ==
    {MinFallbackSize - 1, MinFallbackSize, MinRetrySize + 1, MinFileSize, MinFileSize + 1}

ContentTypes == {"image/png", "text/html"}

\* 'image' in content_type.lower()
IsImage(content_type) == content_type = "image/png"

\* what one request meets: requests.get raises (ConnectionError), or
\* raise_for_status raises (HTTPError), or a response arrives with a content
\* type and a body; open(filepath, 'wb') then succeeds or raises OSError
Responses ==
    {[status |-> st, content_type |-> "", size |-> 0, open |-> "ok"] :
        st \in {"ConnectionError", "HTTPError"}}
    \cup [status : {"ok"}, content_type : ContentTypes, size : FileSizes,
          open : {"ok", "OSError"}]

\* the target file before the call: missing, or left by an earlier download
Absent == [content |-> "absent", size |-> 0]
Previous == [content |-> "previous", size |-> MinFileSize + 1]

Written(source, response) == [content |-> source, size |-> response.size]

InitFetch ==
    /\ pc = "fetching"
    /\ fetcher \in Fetchers
    /\ all_sources = SourcesOf(fetcher)
    /\ requested = <<>>
    /\ filepath \in {Absent, Previous}
    /\ download = None
    /\ IdleNdvi /\ IdleNorm /\ IdleMask /\ IdleIndex /\ IdleApi

\* satellite_fetcher.py lines 127-156: one pass of the loop of download_image
download_image ==
    /\ pc = "fetching"
    /\ fetcher = "download_image"
    /\ Len(requested) < Len(all_sources)
    /\ \E response \in Responses :
        LET source == all_sources[Len(requested) + 1]
            saved == /\ response.status = "ok"
                     /\ IsImage(response.content_type)
                     /\ response.open = "ok"
        IN  /\ requested' = Append(requested, [source |-> source, response |-> response])
            /\ filepath' = IF saved THEN Written(source, response) ELSE filepath
            /\ download' = IF saved THEN [success |-> TRUE, source |-> source] ELSE download
            /\ pc' = IF saved THEN "returned" ELSE pc
    /\ UNCHANGED <<apiVars, fetcher, all_sources, ndviVars, normVars, maskVars, indexVars>>

\* enhanced_satellite_fetcher.py lines 184-222: one pass of the loop of
\* download_best_quality_image; the file is written before its size is judged
download_best_quality_image ==
    /\ pc = "fetching"
    /\ fetcher = "download_best_quality_image"
    /\ Len(requested) < Len(all_sources)
    /\ \E response \in Responses :
        LET source == all_sources[Len(requested) + 1]
            saved == /\ response.status = "ok"
                     /\ IsImage(response.content_type)
                     /\ response.open = "ok"
            kept == saved /\ response.size > MinFileSize
        IN  /\ requested' = Append(requested, [source |-> source, response |-> response])
            /\ filepath' = IF saved THEN Written(source, response) ELSE filepath
            /\ download' = IF kept THEN [success |-> TRUE, source |-> source] ELSE download
            /\ pc' = IF kept THEN "returned" ELSE pc
    /\ UNCHANGED <<apiVars, fetcher, all_sources, ndviVars, normVars, maskVars, indexVars>>

\* hybrid_nasa_fetcher.py lines 217-242: one pass of the loop of
\* download_image_with_fallback; the content type only draws a warning, and
\* only requests.RequestException is caught
download_image_with_fallback ==
    /\ pc = "fetching"
    /\ fetcher = "download_image_with_fallback"
    /\ Len(requested) < Len(all_sources)
    /\ \E response \in Responses :
        LET source == all_sources[Len(requested) + 1]
            saved == response.status = "ok" /\ response.open = "ok"
            kept == saved /\ ~(response.size < MinFallbackSize)
            raised == response.status = "ok" /\ response.open = "OSError"
        IN  /\ requested' = Append(requested, [source |-> source, response |-> response])
            /\ filepath' = IF saved THEN Written(source, response) ELSE filepath
            /\ download' = IF kept THEN TRUE ELSE download
            /\ pc' = IF kept THEN "returned" ELSE IF raised THEN "raised" ELSE pc
    /\ UNCHANGED <<apiVars, fetcher, all_sources, ndviVars, normVars, maskVars, indexVars>>

\* working_nasa_fetcher.py lines 265-287: one pass of the loop of
\* download_image_with_retry; the file is written before its size is judged
download_image_with_retry ==
    /\ pc = "fetching"
    /\ fetcher = "download_image_with_retry"
    /\ Len(requested) < Len(all_sources)
    /\ \E response \in Responses :
        LET source == all_sources[Len(requested) + 1]
            saved == /\ response.status = "ok"
                     /\ IsImage(response.content_type)
                     /\ response.open = "ok"
            kept == saved /\ response.size > MinRetrySize
        IN  /\ requested' = Append(requested, [source |-> source, response |-> response])
            /\ filepath' = IF saved THEN Written(source, response) ELSE filepath
            /\ download' = IF kept THEN TRUE ELSE download
            /\ pc' = IF kept THEN "returned" ELSE pc
    /\ UNCHANGED <<apiVars, fetcher, all_sources, ndviVars, normVars, maskVars, indexVars>>

\* satellite_fetcher.py lines 158-162, enhanced_satellite_fetcher.py lines
\* 224-228, hybrid_nasa_fetcher.py lines 244-245, working_nasa_fetcher.py
\* line 289: the return after the loop
NoSourcesAvailable ==
    /\ pc = "fetching"
    /\ Len(requested) = Len(all_sources)
    /\ download' = IF ReturnsBool(fetcher) THEN FALSE
                   ELSE [success |-> FALSE, sources_tried |-> all_sources]
    /\ pc' = "returned"
    /\ UNCHANGED <<apiVars, fetcher, all_sources, requested, filepath,
                   ndviVars, normVars, maskVars, indexVars>>

NextFetch ==
    \/ download_image
    \/ download_best_quality_image
    \/ download_image_with_fallback
    \/ download_image_with_retry
    \/ NoSourcesAvailable

SpecFetch == InitFetch /\ [][NextFetch]_vars

-----------------------------------------------------------------------------
(* Claims about the order of the download attempts *)

\* the call returned success
Succeeded ==
    /\ pc = "returned"
    /\ IF ReturnsBool(fetcher) THEN download = TRUE
       ELSE download.success

\* the call returned failure
GaveUp ==
    /\ pc = "returned"
    /\ IF ReturnsBool(fetcher) THEN download = FALSE
       ELSE ~download.success

\* a source failed: an exception, an HTTP error, a response that is no image,
\* or a body below the size the routine asks for
SourceFailed(r) ==
    \/ r.status # "ok"
    \/ r.open = "OSError"
    \/ ~IsImage(r.content_type)
    \/ fetcher = "download_best_quality_image" /\ ~(r.size > MinFileSize)
    \/ fetcher = "download_image_with_fallback" /\ r.size < MinFallbackSize
    \/ fetcher = "download_image_with_retry" /\ ~(r.size > MinRetrySize)

\* C20: the sources are requested in the order of the list and each at most
\* once; a source is requested only after every source before it has failed;
\* a successful call names the first source that did not fail and requests no
\* source after it; a call returns failure only after all sources were tried.
C20_SourcesTriedInOrder ==
    /\ Len(requested) <= Len(all_sources)
    /\ \A k \in 1..Len(requested) : requested[k].source = all_sources[k]
    /\ \A k \in 1..(Len(requested) - 1) : SourceFailed(requested[k].response)
    /\ Succeeded =>
        /\ Len(requested) > 0
        /\ ~SourceFailed(requested[Len(requested)].response)
        /\ ~ReturnsBool(fetcher) =>
            download.source = requested[Len(requested)].source
    /\ ~Succeeded =>
        \A k \in 1..Len(requested) : SourceFailed(requested[k].response)
    /\ GaveUp => Len(requested) = Len(all_sources)

-----------------------------------------------------------------------------
(* The vegetation mask on colours at the limits of the green range *)

\* BGR colours whose HSV form lies on either side of each limit of lines 25-26
HueBelow == <<0, 200, 170>>        \* hue 34
HueLowest == <<0, 200, 164>>       \* hue 35
HueHighest == <<198, 200, 0>>      \* hue 90
HueAbove == <<204, 200, 0>>        \* hue 91
PaleBelow == <<216, 255, 216>>     \* hue 60, saturation 39
PaleLowest == <<169, 200, 169>>    \* hue 60, saturation 40
DimBelow == <<0, 19, 0>>           \* hue 60, value 19
DimLowest == <<0, 20, 0>>          \* hue 60, value 20
White == <<255, 255, 255>>         \* saturation 0
LimitPalette ==
    Palette \cup {HueBelow, HueLowest, HueHighest, HueAbove, PaleBelow,
                  PaleLowest, DimBelow, DimLowest, White}

\* an image of one row and two pixels
Pair == {<<1, 1>>, <<1, 2>>}

\* the second image holds the pixels of the first in reverse order
InitVegetation ==
    /\ pc = "loaded"
    /\ before \in [Pair -> LimitPalette]
    /\ after = [p \in Pair |-> before[<<1, 3 - p[2]>>]]
    /\ before_mask = None /\ after_mask = None /\ loss_mask = None /\ result = None
    /\ IdleNdvi /\ IdleNorm /\ IdleIndex /\ IdleFetch /\ IdleApi

SpecVegetation == InitVegetation /\ [][NextMask]_vars

\* a pixel is vegetation: hue within [35, 90], saturation >= 40, value >= 20
IsGreen(px) ==
    LET hsv == BGR2HSV(px)
    IN  35 <= hsv[1] /\ hsv[1] <= 90 /\ hsv[2] >= 40 /\ hsv[3] >= 20

\* C22: the vegetation mask sets a pixel (255) if and only if its hue lies in
\* [35, 90], both ends included, its saturation is at least 40 and its value
\* at least 20; every other pixel is 0.
C22_MaskIsGreenRange ==
    pc # "loaded" =>
        /\ \A p \in DOMAIN before_mask :
            /\ before_mask[p] \in {0, 255}
            /\ before_mask[p] = 255 <=> IsGreen(before[p])
        /\ \A p \in DOMAIN after_mask :
            /\ after_mask[p] \in {0, 255}
            /\ after_mask[p] = 255 <=> IsGreen(after[p])

\* a pixel at the upper end of the hue range is set beside one just below
\* the least value, which is not
C22_Witness ==
    /\ pc = "masked"
    /\ before[<<1, 1>>] = HueHighest /\ before_mask[<<1, 1>>] = 255
    /\ before[<<1, 2>>] = DimBelow /\ before_mask[<<1, 2>>] = 0

-----------------------------------------------------------------------------
(* main.py: refresh_all_data *)

\* the file names the data directory may hold
FileNames ==
    {"sierra_madre_2000.png", "manila_2025.JPG",
     "sierra_madre_forest_monitoring_dashboard.png",
     "sierra_madre_analysis_summary.json", "fires.csv"}

\* p.suffix.lower()
SuffixLower(name) ==
    CASE name = "sierra_madre_2000.png" -> ".png"
      [] name = "manila_2025.JPG" -> ".jpg"
      [] name = "sierra_madre_forest_monitoring_dashboard.png" -> ".png"
      [] name = "sierra_madre_analysis_summary.json" -> ".json"
      [] OTHER -> ".csv"

\* line 196
image_extensions == {".png", ".jpg", ".jpeg", ".tiff", ".gif", ".bmp"}

\* DATA_DIR.glob("*_analysis_summary.json")
IsSummary(name) == name = "sierra_madre_analysis_summary.json"
\* DATA_DIR.glob("*_forest_monitoring_dashboard.png")
IsDashboard(name) == name = "sierra_madre_forest_monitoring_dashboard.png"

\* an entry is a file that os.remove deletes, a file it fails on, or a
\* directory of that name
EntryKinds == {"file", "locked_file", "directory"}

\* the directories the call may find: each name absent or of one kind
Directories ==
    UNION {[present -> EntryKinds] : present \in SUBSET FileNames}

\* the bug of removing the images whatever the parameter says
images_to_remove_always(remove, dir) ==
    {n \in DOMAIN dir : /\ dir[n] \in {"file", "locked_file"}
                        /\ SuffixLower(n) \in image_extensions}

\* lines 195-198: the image files the first loop tries to remove
images_to_remove(remove, dir) ==
    IF remove
    THEN {n \in DOMAIN dir : /\ dir[n] \in {"file", "locked_file"}
                             /\ SuffixLower(n) \in image_extensions}
    ELSE {}

\* os.remove(p) succeeds on a file that is not locked
Removable(dir, n) == dir[n] = "file"

\* the directory without the entries of gone
Without(dir, gone) == [n \in DOMAIN dir \ gone |-> dir[n]]

InitRefresh ==
    /\ pc = "refresh_called"
    /\ data_dir \in Directories
    /\ remove_images \in BOOLEAN
    /\ refresh_results = None
    /\ IdleNdvi /\ IdleNorm /\ IdleMask /\ IdleIndex /\ IdleFetch /\ IdleFire /\ IdleCompare

\* lines 186-239: the three removal loops and the returned details (the
\* refreshed fire data touch no file)
refresh_all_data ==
    /\ pc = "refresh_called"
    /\ LET images == images_to_remove(remove_images, data_dir)
           images_removed == {n \in images : Removable(data_dir, n)}
           dir1 == Without(data_dir, images_removed)
           summary_files == {n \in DOMAIN dir1 : IsSummary(n)}
           summaries_removed == {n \in summary_files : Removable(dir1, n)}
           dir2 == Without(dir1, summaries_removed)
           dashboard_files == {n \in DOMAIN dir2 : IsDashboard(n)}
           dashboards_removed == {n \in dashboard_files : Removable(dir2, n)}
       IN  /\ data_dir' = Without(dir2, dashboards_removed)
           /\ refresh_results' =
                [images_removed |-> images_removed,
                 summaries_removed |-> summaries_removed,
                 dashboards_removed |-> dashboards_removed,
                 errors |-> (images \ images_removed)
                            \cup (summary_files \ summaries_removed)
                            \cup (dashboard_files \ dashboards_removed)]
    /\ pc' = "refreshed"
    /\ UNCHANGED <<remove_images, fireVars, compareVars, ndviVars, normVars, maskVars, indexVars, fetchVars>>

NextRefresh == refresh_all_data

SpecRefresh == InitRefresh /\ [][NextRefresh]_vars

-----------------------------------------------------------------------------
(* Claims about refresh_all_data *)

\* the image files of a directory: files with one of the image suffixes
ImageFiles(dir) ==
    {n \in DOMAIN dir : /\ dir[n] \in {"file", "locked_file"}
                        /\ SuffixLower(n) \in image_extensions}

\* C23 as stated: a call with remove_images = False removes no image file of
\* the data directory and returns an empty images_removed list.
C23_NoImageRemoved ==
    [][(pc = "refresh_called" /\ ~remove_images) =>
            /\ \A n \in ImageFiles(data_dir) : n \in DOMAIN data_dir'
            /\ refresh_results'.images_removed = {}]_vars

\* C23 as amended: a call with remove_images = False returns an empty
\* images_removed list and removes no image file other than the dashboards
\* matching *_forest_monitoring_dashboard.png, which it removes in any case.
C23_OnlyDashboardsRemoved ==
    [][(pc = "refresh_called" /\ ~remove_images) =>
            /\ \A n \in ImageFiles(data_dir) : ~IsDashboard(n) => n \in DOMAIN data_dir'
            /\ \A n \in ImageFiles(data_dir) :
                (IsDashboard(n) /\ data_dir[n] = "file") => n \notin DOMAIN data_dir'
            /\ refresh_results'.images_removed = {}]_vars

\* a call without remove_images that kept a cached image and removed a
\* dashboard
C23_Witness ==
    /\ pc = "refreshed"
    /\ ~remove_images
    /\ "sierra_madre_2000.png" \in DOMAIN data_dir
    /\ data_dir["sierra_madre_2000.png"] = "file"
    /\ refresh_results.images_removed = {}
    /\ refresh_results.dashboards_removed # {}

-----------------------------------------------------------------------------
(* satellite_fetcher.py: get_fire_data *)

\* the most data rows of one FIRMS response
MaxRows == 2

(* A CSV field is a number, the empty string or some other text; latitudes
   and longitudes are held in tenths of a degree. *)
Num(v) == [kind |-> "num", val |-> v]
Empty == [kind |-> "empty", val |-> 0]
Word == [kind |-> "text", val |-> 0]
\* the first field of the FIRMS header line
Latitude == [kind |-> "text", val |-> 1]
\* Python's None in a feature
NoneValue == [kind |-> "none", val |-> 0]

\* float(field): surrounding whitespace is stripped, other text raises
\* ValueError
Parses(field) == field.kind = "num"
\* the truth value of a string: every string but the empty one
Truthy(field) == field.kind # "empty"

\* the field that holds a + "\n" + b: it still parses as a number when one of
\* the two sides is empty, and it is never the empty string
JoinFields(a, b) ==
    IF a.kind = "num" /\ b.kind = "empty" THEN a
    ELSE IF a.kind = "empty" /\ b.kind = "num" THEN b
    ELSE Word

\* a data row of at least 9 fields: latitude, longitude, brightness, ...,
\* acq_date (field 5), ..., confidence (field 8), and extra fields after it
DataRow(lat, lon, confidence, extra) ==
    <<lat, lon, Num(3000), Word, Word, Word, Word, Word, confidence>>
        \o [k \in 1..extra |-> Word]

\* satellite_fetcher.py lines 44-49, in tenths of a degree
sierra_madre_bbox == [north |-> 175, south |-> 140, east |-> 1228, west |-> 1205]

SouthWestCorner == DataRow(Num(140), Num(1205), Num(80), 1)
NorthEastCorner == DataRow(Num(175), Num(1228), Empty, 0)
SouthOfBox == DataRow(Num(139), Num(1210), Num(90), 0)
EastOfBox == DataRow(Num(160), Num(1229), Num(90), 0)
AtThreshold == DataRow(Num(160), Num(1210), Num(75), 0)
BadLatitude == DataRow(Word, Num(1210), Num(90), 0)
LetterConfidence == DataRow(Num(160), Num(1210), Word, 0)
TwoFields == <<Num(160), Num(1210)>>
Rows ==
    {SouthWestCorner, NorthEastCorner, SouthOfBox, EastOfBox, AtThreshold,
     BadLatitude, LetterConfidence, TwoFields}

HeaderRow == <<Latitude>> \o [k \in 1..9 |-> Word]

RowLists == UNION {[1..n -> Rows] : n \in 0..MaxRows}

\* what one FIRMS request meets: requests.get raises, or a response arrives
\* with a status and a text: an optional header line and data rows, separated
\* by newline characters or by the two characters backslash and n
FirmsResponses ==
    {[outcome |-> o, header |-> FALSE, separator |-> "newline", rows |-> <<>>] :
        o \in {"exception", "status_500"}}
    \cup [outcome : {"status_200"}, header : BOOLEAN,
          separator : {"newline", "backslash_n"}, rows : RowLists]

\* the rows of the text, the header line first when there is one
TextRows(r) == IF r.header THEN <<HeaderRow>> \o r.rows ELSE r.rows

\* the fields of a piece of text that holds several rows separated by
\* newline characters: line.split(',') joins the last field of a row with
\* the first field of the next
RECURSIVE JoinRows(_)
JoinRows(rows) ==
    IF Len(rows) = 0 THEN <<>>
    ELSE IF Len(rows) = 1 THEN rows[1]
    ELSE LET rest == JoinRows(Tail(rows))
             first == rows[1]
         IN  SubSeq(first, 1, Len(first) - 1)
                \o <<JoinFields(first[Len(first)], rest[1])>>
                \o Tail(rest)

\* line 244: response.text.strip().split('\\n') splits at the two characters
\* backslash and n, and leaves a text with newline characters in one piece
SplitLines(r) ==
    IF r.separator = "backslash_n" THEN TextRows(r)
    ELSE <<JoinRows(TextRows(r))>>

\* lines 253-267: the fire of one line, or no fire
FiresOfLine(parts) ==
    IF Len(parts) < 9 THEN <<>>
    ELSE IF ~Parses(parts[1]) \/ ~Parses(parts[2]) THEN <<>>
    ELSE LET lat == parts[1].val
             lon == parts[2].val
             bbox == sierra_madre_bbox
         IN  IF ~(/\ bbox.south <= lat /\ lat <= bbox.north
                  /\ bbox.west <= lon /\ lon <= bbox.east) THEN <<>>
             ELSE IF Truthy(parts[3]) /\ ~Parses(parts[3]) THEN <<>>
             ELSE IF Truthy(parts[9]) /\ ~Parses(parts[9]) THEN <<>>
             ELSE <<[latitude |-> lat,
                     longitude |-> lon,
                     brightness |-> IF Truthy(parts[3]) THEN parts[3] ELSE NoneValue,
                     confidence |-> IF Truthy(parts[9]) THEN parts[9] ELSE NoneValue]>>

RECURSIVE FiresOfLines(_, _)
FiresOfLines(lines, k) ==
    IF k > Len(lines) THEN <<>>
    ELSE FiresOfLine(lines[k]) \o FiresOfLines(lines, k + 1)

\* lines 243-267: the fires of one response
FiresOfResponse(r) ==
    IF r.outcome # "status_200" \/ Len(TextRows(r)) = 0 THEN <<>>
    ELSE LET lines == SplitLines(r)
             start_idx == IF lines[1][1] = Latitude THEN 1 ELSE 0
         IN  FiresOfLines(lines, start_idx + 1)

\* lines 228-231: VIIRS, then MODIS
NumFirmsUrls == 2

InitFire ==
    /\ pc = "fire_querying"
    /\ firms_requests = <<>>
    /\ sierra_fires = <<>>
    /\ fire_data = None
    /\ high_confidence = None
    /\ high_confidence_fires = None
    /\ IdleNdvi /\ IdleNorm /\ IdleMask /\ IdleIndex /\ IdleFetch /\ IdleRefresh /\ IdleCompare

\* lines 239-272: one pass of the loop over the two URLs
QueryFirms ==
    /\ pc = "fire_querying"
    /\ Len(firms_requests) < NumFirmsUrls
    /\ \E response \in FirmsResponses :
        /\ firms_requests' = Append(firms_requests, response)
        /\ sierra_fires' = sierra_fires \o FiresOfResponse(response)
    /\ UNCHANGED <<pc, fire_data, high_confidence, high_confidence_fires,
                   refreshVars, compareVars, ndviVars, normVars, maskVars, indexVars, fetchVars>>

\* lines 274-296: the FeatureCollection of the collected fires
ReturnFireData ==
    /\ pc = "fire_querying"
    /\ Len(firms_requests) = NumFirmsUrls
    /\ fire_data' = [features |-> sierra_fires, count |-> Len(sierra_fires)]
    /\ pc' = "fire_returned"
    /\ UNCHANGED <<firms_requests, sierra_fires, high_confidence, high_confidence_fires,
                   refreshVars, compareVars, ndviVars, normVars, maskVars, indexVars, fetchVars>>

\* main.py line 373: the sum over f.get("properties", {}).get("confidence", 0) > 75;
\* the comparison None > 75 raises TypeError
RECURSIVE CountAbove(_, _)
CountAbove(features, k) ==
    IF k > Len(features) THEN [error |-> "", count |-> 0]
    ELSE IF features[k].confidence = NoneValue THEN [error |-> "TypeError", count |-> 0]
    ELSE LET rest == CountAbove(features, k + 1)
         IN  IF rest.error # "" THEN rest
             ELSE [error |-> "",
                   count |-> rest.count + (IF features[k].confidence.val > 75 THEN 1 ELSE 0)]

\* main.py line 476: confidence and confidence > 75
IsHighConfidence(confidence) ==
    confidence # NoneValue /\ confidence.val # 0 /\ confidence.val > 75

\* main.py lines 474-476
count_high_confidence_fires(features) ==
    Cardinality({k \in 1..Len(features) : IsHighConfidence(features[k].confidence)})

\* main.py lines 369-373: the fire section of export_report_pdf; a TypeError
\* leaves the endpoint as HTTP 500 (line 402)
export_report_pdf ==
    /\ pc = "fire_returned"
    /\ high_confidence = None
    /\ high_confidence' =
        IF Len(fire_data.features) = 0 THEN [error |-> "", count |-> 0]
        ELSE CountAbove(fire_data.features, 1)
    /\ UNCHANGED <<pc, firms_requests, sierra_fires, fire_data, high_confidence_fires,
                   refreshVars, compareVars, ndviVars, normVars, maskVars, indexVars, fetchVars>>

\* main.py line 131: get_detailed_analytics counts the high-confidence fires
get_detailed_analytics ==
    /\ pc = "fire_returned"
    /\ high_confidence_fires = None
    /\ high_confidence_fires' = [count |-> count_high_confidence_fires(fire_data.features)]
    /\ UNCHANGED <<pc, firms_requests, sierra_fires, fire_data, high_confidence,
                   refreshVars, compareVars, ndviVars, normVars, maskVars, indexVars, fetchVars>>

NextFire ==
    \/ QueryFirms
    \/ ReturnFireData
    \/ export_report_pdf
    \/ get_detailed_analytics

SpecFire == InitFire /\ [][NextFire]_vars

-----------------------------------------------------------------------------
(* Claims about the fire detections *)

\* a data row with at least 9 fields and parseable coordinates inside the
\* Sierra Madre box: latitude in [14.0, 17.5], longitude in [120.5, 122.8]
InSierraMadre(row) ==
    /\ Len(row) >= 9
    /\ Parses(row[1]) /\ Parses(row[2])
    /\ 140 <= row[1].val /\ row[1].val <= 175
    /\ 1205 <= row[2].val /\ row[2].val <= 1228

\* a response of status 200: a header line followed by newline-separated rows
HeaderAndRows(r) ==
    r.outcome = "status_200" /\ r.header /\ r.separator = "newline"

\* the coordinates of the rows of a response that lie in the box, in order
RECURSIVE RowsInBox(_, _)
RowsInBox(rows, k) ==
    IF k > Len(rows) THEN <<>>
    ELSE (IF InSierraMadre(rows[k]) THEN <<<<rows[k][1].val, rows[k][2].val>>>> ELSE <<>>)
            \o RowsInBox(rows, k + 1)

Coordinates(features) ==
    [k \in 1..Len(features) |-> <<features[k].latitude, features[k].longitude>>]

\* C24: when both FIRMS responses are a header line followed by
\* newline-separated data rows, the returned features are, in order, one for
\* each data row with at least 9 fields and parseable coordinates inside the
\* Sierra Madre box, and none for any other row.
C24_FeaturesAreRowsInBox ==
    (/\ pc = "fire_returned"
     /\ \A k \in 1..Len(firms_requests) : HeaderAndRows(firms_requests[k])) =>
        Coordinates(fire_data.features)
            = RowsInBox(firms_requests[1].rows, 1) \o RowsInBox(firms_requests[2].rows, 1)

\* C27: for every feature list get_fire_data returns, also one holding a
\* confidence of None, export_report_pdf does not fail and counts the same
\* high-confidence fires (confidence > 75) as count_high_confidence_fires.
C27_CountsAgree ==
    (pc = "fire_returned" /\ high_confidence # None /\ high_confidence_fires # None) =>
        /\ high_confidence.error = ""
        /\ high_confidence.count = high_confidence_fires.count

\* the fires of the data rows of a response, each row taken by itself
FiresOfRows(r) ==
    IF r.outcome # "status_200" THEN <<>> ELSE FiresOfLines(r.rows, 1)

\* C29: get_fire_data returns a FeatureCollection for every outcome of the
\* two FIRMS requests: its count is the length of its features, the second
\* source is queried also when the first failed, and the features are those
\* of the valid rows of both responses, the malformed rows being skipped
\* without the loss of a valid one.
C29_ValidRowsSurvive ==
    pc = "fire_returned" =>
        /\ fire_data.count = Len(fire_data.features)
        /\ Len(firms_requests) = NumFirmsUrls
        /\ fire_data.features
            = FiresOfRows(firms_requests[1]) \o FiresOfRows(firms_requests[2])

-----------------------------------------------------------------------------
(* Claims about the opened loss mask *)

\* C25: after the 5x5 opening, every pixel of the loss mask is set in
\* before_mask and not set in after_mask, so loss_area <= before_area and
\* 0 <= percent_loss <= 100.
C25_OpenedLossWithinCleared ==
    /\ pc \in {"opened", "returned"} =>
        \A p \in DOMAIN loss_mask :
            loss_mask[p] > 0 => (before_mask[p] > 0 /\ after_mask[p] = 0)
    /\ pc = "returned" =>
        /\ result.loss_area <= result.before_area
        /\ Le(FromInt(0), result.percent_loss)
        /\ Le(result.percent_loss, FromInt(100))

\* an opened loss mask that kept some of the cleared pixels and dropped
\* others, with vegetation left in the second image
C25_Witness ==
    /\ pc = "returned"
    /\ result.loss_area > 0
    /\ result.loss_area < Cardinality(Cleared)
    /\ result.loss_area < result.before_area
    /\ Area(after_mask) > 0

-----------------------------------------------------------------------------
(* Claims about the target file of a failed download *)

\* C26: when a download call returns failure, the file at the target path
\* is as it was before the call: no rejected source has created or
\* overwritten it.
C26_FailureLeavesFileUntouched ==
    GaveUp => filepath \in {Absent, Previous}

-----------------------------------------------------------------------------
(* satellite_fetcher.py, enhanced_satellite_fetcher.py: fetch_comparison_images *)

FetchClasses == {"SatelliteDataFetcher", "EnhancedSatelliteDataFetcher"}

\* the download routine of each class and its sources
SourceNames(class) ==
    IF class = "SatelliteDataFetcher" THEN get_imagery_urls
    ELSE get_high_quality_imagery_urls

\* file sizes, in hundredths of a megabyte
FileSizesMb == {50, 125}

\* what download_image / download_best_quality_image can return: success
\* with the name of a source and a file size, or failure
DownloadResults(class) ==
    {[success |-> TRUE, source |-> SourceNames(class)[k], file_size_mb |-> z] :
        k \in 1..Len(SourceNames(class)), z \in FileSizesMb}
    \cup {[success |-> FALSE, error |-> "No sources available"]}

\* what get_fire_data can return: a FeatureCollection of so many features
FireCounts == {0, 3}

\* result.get('source', 'Failed')
SourceOrFailed(r) == IF "source" \in DOMAIN r THEN r.source ELSE "Failed"
\* result.get('file_size_mb', 0)
SizeOrZero(r) == IF "file_size_mb" \in DOMAIN r THEN r.file_size_mb ELSE 0

\* the bug of 'or' in the place of 'and'
EitherSucceeded(r1, r2) == r1.success \/ r2.success

\* lines 191 / 291: success = result_2000.get('success', False) and
\* result_2025.get('success', False)
BothSucceeded(r1, r2) == r1.success /\ r2.success

InitCompare ==
    /\ pc = "comparison_called"
    /\ fetch_class \in FetchClasses
    /\ calls = <<>>
    /\ result_2000 = None
    /\ result_2025 = None
    /\ comparison_fire_data = None
    /\ comparison = None
    /\ IdleNdvi /\ IdleNorm /\ IdleMask /\ IdleIndex /\ IdleFetch /\ IdleRefresh /\ IdleFire

\* lines 176-180 / 276-280: the download of the first date
DownloadFirst ==
    /\ pc = "comparison_called"
    /\ \E r \in DownloadResults(fetch_class) : result_2000' = r
    /\ calls' = Append(calls, "download year_2000")
    /\ pc' = "first_downloaded"
    /\ UNCHANGED <<fetch_class, result_2025, comparison_fire_data, comparison,
                   refreshVars, fireVars, ndviVars, normVars, maskVars, indexVars, fetchVars>>

\* lines 182-186 / 282-286: the download of the second date
DownloadSecond ==
    /\ pc = "first_downloaded"
    /\ \E r \in DownloadResults(fetch_class) : result_2025' = r
    /\ calls' = Append(calls, "download year_2025")
    /\ pc' = "second_downloaded"
    /\ UNCHANGED <<fetch_class, result_2000, comparison_fire_data, comparison,
                   refreshVars, fireVars, ndviVars, normVars, maskVars, indexVars, fetchVars>>

\* lines 188-189 / 288-289: the fire data
GetFireData ==
    /\ pc = "second_downloaded"
    /\ \E n \in FireCounts : comparison_fire_data' = [type |-> "FeatureCollection", count |-> n]
    /\ calls' = Append(calls, "get_fire_data")
    /\ pc' = "fire_fetched"
    /\ UNCHANGED <<fetch_class, result_2000, result_2025, comparison,
                   refreshVars, fireVars, ndviVars, normVars, maskVars, indexVars, fetchVars>>

\* lines 191-216 / 291-316: the returned record
ReturnComparison ==
    /\ pc = "fire_fetched"
    /\ LET success == BothSucceeded(result_2000, result_2025)
           built == [images_downloaded |-> success,
                      download_results |-> [year_2000 |-> result_2000,
                                            year_2025 |-> result_2025],
                      fire_data |-> comparison_fire_data,
                      data_sources |-> [image_2000 |-> SourceOrFailed(result_2000),
                                        image_2025 |-> SourceOrFailed(result_2025)]]
           total_size == SizeOrZero(result_2000) + SizeOrZero(result_2025)
       IN  comparison' =
             IF success
             THEN [k \in DOMAIN built \cup {"total_download_mb"} |->
                      IF k = "total_download_mb" THEN total_size ELSE built[k]]
             ELSE built
    /\ pc' = "comparison_returned"
    /\ UNCHANGED <<fetch_class, calls, result_2000, result_2025, comparison_fire_data,
                   refreshVars, fireVars, ndviVars, normVars, maskVars, indexVars, fetchVars>>

NextCompare == DownloadFirst \/ DownloadSecond \/ GetFireData \/ ReturnComparison

SpecCompare == InitCompare /\ [][NextCompare]_vars

-----------------------------------------------------------------------------
(* Claims about fetch_comparison_images *)

CallOrder == <<"download year_2000", "download year_2025", "get_fire_data">>

\* C28: the calls are made in the order first date, second date, fire data,
\* all three also when the first download failed; images_downloaded is true
\* exactly when both downloads succeeded, total_download_mb is present only
\* then, and a failed image has the data source 'Failed'.
C28_BothDownloadsAndFireData ==
    /\ Len(calls) <= Len(CallOrder)
    /\ calls = SubSeq(CallOrder, 1, Len(calls))
    /\ pc = "comparison_returned" =>
        /\ calls = CallOrder
        /\ comparison.images_downloaded <=> (result_2000.success /\ result_2025.success)
        /\ "total_download_mb" \in DOMAIN comparison => comparison.images_downloaded
        /\ ~result_2000.success => comparison.data_sources.image_2000 = "Failed"
        /\ ~result_2025.success => comparison.data_sources.image_2025 = "Failed"

\* a returned comparison whose first download failed and whose second
\* succeeded
C28_Witness ==
    /\ pc = "comparison_returned"
    /\ ~result_2000.success
    /\ result_2025.success
    /\ calls = CallOrder
    /\ ~comparison.images_downloaded
    /\ comparison.data_sources.image_2000 = "Failed"
    /\ comparison.data_sources.image_2025 = result_2025.source

-----------------------------------------------------------------------------
(* Claims about the fallback of process_modis_hdf_file *)

\* C30: in the fallback path the NDVI of every pixel with a nonzero sample is
\* 0.2/2.2 and of every pixel with a zero sample is 0, and the density
\* classifier gives class 0 to every pixel.
C30_FallbackIsClassZero ==
    /\ pc \in {"ndvi", "classified"} =>
        \A i \in DOMAIN hdf_data :
            IF hdf_data[i].n # 0 THEN Eq(ndvi[i], Rat(2, 22)) ELSE Eq(ndvi[i], FromInt(0))
    /\ pc = "classified" => \A i \in DOMAIN hdf_data : forest_density[i] = 0

\* a classified fallback raster with a zero sample beside a nonzero one
C30_Witness ==
    /\ pc = "classified"
    /\ \E i, j \in DOMAIN hdf_data :
        /\ hdf_data[i].n = 0 /\ ndvi[i].n = 0
        /\ hdf_data[j].n # 0 /\ Eq(ndvi[j], Rat(1, 11))
    /\ \A i \in DOMAIN hdf_data : forest_density[i] = 0

====
